---- MODULE Spec2Model ----
(***************************************************************************)
(* Language resources of an intent (intents/language/intent_language.py):  *)
(* the example-utterance tokenizer ExampleUtterance.chunks(), the response *)
(* parsers and the language-data loader intent_language_data().            *)
(*                                                                         *)
(* Python strings that are scanned character by character (examples,       *)
(* parameter names and values) are sequences of one-character strings.     *)
(* Offsets are 0-based and half-open, as in Python.                         *)
(***************************************************************************)
EXTENDS Integers, Sequences, FiniteSets, TLC

\* ------------------------------------------------------------------------
\* Bounds of the model
\* ------------------------------------------------------------------------
MaxLen == 5      \* example strings: every string of at most MaxLen characters
MaxParts == 3    \* example strings: every concatenation of at most MaxParts fragments
MaxEntries == 2  \* language documents: examples + prompts + response items
MaxGroups == 2   \* language documents: response groups

\* ------------------------------------------------------------------------
\* Characters and strings
\* ------------------------------------------------------------------------
WordChars == {"a", "b"}                       \* characters matched by \w
Alphabet == {"$", "{", "}", " "} \cup WordChars

\* Python s[lo:hi] for 0 <= lo, hi <= len(s)
Slice(s, lo, hi) == SubSeq(s, lo + 1, hi)

RECURSIVE Flatten(_)
Flatten(parts) ==
    IF parts = <<>> THEN <<>> ELSE Head(parts) \o Flatten(Tail(parts))

SeqsUpTo(S, n) == UNION {[1..k -> S] : k \in 0..n}

\* ------------------------------------------------------------------------
\* Intent classes and Intent.parameter_schema()
\* ------------------------------------------------------------------------
\* A dataclass field: its name, its annotation (generic alias name "" when the
\* annotation is a plain entity class, e.g. "List" for List[Sys.Person], with
\* its type arguments) and its default ("missing", "value" or "list").
Field(n, g, as, d) == [name |-> n, generic |-> g, args |-> as, default |-> d]

\* example_agent/smalltalk.py, with the parameter names shortened to one or two
\* characters so that annotated examples stay within the string bounds.
hello == [name |-> "smalltalk.hello", fields |-> <<>>]
user_name_give ==
    [name |-> "smalltalk.user_name_give",
     fields |-> <<Field(<<"a">>, "", <<"Sys.Person">>, "missing")>>]
greet_friends ==
    [name |-> "smalltalk.greet_friends",
     fields |-> <<Field(<<"a">>, "List", <<"Sys.Person">>, "missing"),
                  Field(<<"b">>, "", <<"Sys.Date">>, "value")>>]

IntentClasses == {hello, user_name_give, greet_friends}

\* the checks of parameter_schema() that raise ValueError; _IntentMetaclass
\* runs them when the class is created, so every existing class passes them
ValidField(f) ==
    /\ f.generic # "" => (f.generic = "List" /\ Len(f.args) = 1)
    /\ (f.default # "missing" /\ f.generic # "") => f.default = "list"

ValidIntentClass(cls) == \A i \in 1..Len(cls.fields) : ValidField(cls.fields[i])

\* lines 203-215: the entity class is the annotation, or its type argument
FieldEntityCls(f) == f.args[1]

IntentParameterMetadata(f) ==
    [name |-> f.name,
     entity_cls |-> FieldEntityCls(f),
     is_list |-> f.generic # "",
     required |-> f.default = "missing"]

FieldNamed(cls, n) ==
    cls.fields[CHOOSE i \in 1..Len(cls.fields) : cls.fields[i].name = n]

parameter_schema(cls) ==
    [n \in {cls.fields[i].name : i \in 1..Len(cls.fields)} |->
        IntentParameterMetadata(FieldNamed(cls, n))]

\* ------------------------------------------------------------------------
\* Exceptions
\* ------------------------------------------------------------------------
\* type: the Python exception class; site: the raise statement
NoExc == [type |-> "", site |-> ""]
Exc(t, s) == [type |-> t, site |-> s]

\* ------------------------------------------------------------------------
\* RE_EXAMPLE_PARAMETERS and re.finditer
\* ------------------------------------------------------------------------
\* first offset >= i (0-based) whose character is not a word character
RECURSIVE WordRunEnd(_, _)
WordRunEnd(s, i) ==
    IF i < Len(s) /\ s[i + 1] \in WordChars THEN WordRunEnd(s, i + 1) ELSE i

\* first offset >= i (0-based) whose character is "}", or Len(s)
RECURSIVE ValueRunEnd(_, _)
ValueRunEnd(s, i) ==
    IF i < Len(s) /\ s[i + 1] # "}" THEN ValueRunEnd(s, i + 1) ELSE i

NoMatch == [matched |-> FALSE, start |-> 0, end |-> 0,
            parameter_name |-> <<>>, parameter_value |-> <<>>]

\* [^\}]+ needs at least one character
ValueOkStar(j, k) == k >= j + 1
ValueOk(j, k) == k > j + 1

\* the match of \$(?P<parameter_name>[\w]+)\{(?P<parameter_value>[^\}]+)\}
\* that starts at offset i. Both runs are greedy and each is delimited by a
\* character outside its class, so backtracking finds no other match.
MatchAt(s, i) ==
    IF ~(i < Len(s) /\ s[i + 1] = "$") THEN NoMatch
    ELSE LET j == WordRunEnd(s, i + 1)    \* offset of "{"
         IN IF j = i + 1 \/ ~(j < Len(s) /\ s[j + 1] = "{") THEN NoMatch
            ELSE LET k == ValueRunEnd(s, j + 1)    \* offset of "}"
                 IN IF ~ValueOk(j, k) \/ ~(k < Len(s)) THEN NoMatch
                    ELSE [matched |-> TRUE, start |-> i, end |-> k + 1,
                          parameter_name |-> Slice(s, i + 1, j),
                          parameter_value |-> Slice(s, j + 1, k)]

\* finditer: the leftmost match at or after pos, then on from its end
RECURSIVE finditer(_, _)
finditer(s, pos) ==
    IF pos >= Len(s) THEN <<>>
    ELSE LET m == MatchAt(s, pos)
         IN IF m.matched THEN <<m>> \o finditer(s, m.end)
            ELSE finditer(s, pos + 1)

\* ------------------------------------------------------------------------
\* ExampleUtterance.chunks()
\* ------------------------------------------------------------------------
TextUtteranceChunk(t) ==
    [cls |-> "TextUtteranceChunk", text |-> t, entity_cls |-> "",
     parameter_name |-> <<>>, parameter_value |-> <<>>]

EntityUtteranceChunk(e, n, v) ==
    [cls |-> "EntityUtteranceChunk", text |-> <<>>, entity_cls |-> e,
     parameter_name |-> n, parameter_value |-> v]

\* lines 126-127: the text before a match
TextBeforeMatch(s, result, last_end, m) ==
    IF m.start > 0
    THEN Append(result, TextUtteranceChunk(Slice(s, last_end, m.start)))
    ELSE result

EntityChunkOfSwapped(schema, m) ==
    EntityUtteranceChunk(schema[m.parameter_name].entity_cls,
                         m.parameter_value, m.parameter_name)

\* lines 132-137: the entity chunk of a match
EntityChunkOf(schema, m) ==
    EntityUtteranceChunk(schema[m.parameter_name].entity_cls,
                         m.parameter_name, m.parameter_value)

NextLastEndStart(m) == m.start

\* line 139
NextLastEnd(m) == m.end

\* lines 141-143: the text after the last match
TextAfterMatches(s, result, last_end) ==
    LET last_chunk == TextUtteranceChunk(Slice(s, last_end, Len(s)))
    IN IF last_chunk.text # <<>> THEN Append(result, last_chunk) ELSE result

Returned(v) == [raised |-> FALSE, exc |-> NoExc, value |-> v]
Raised(e) == [raised |-> TRUE, exc |-> e, value |-> <<>>]

RECURSIVE chunksLoop(_, _, _, _, _)
chunksLoop(s, schema, ms, result, last_end) ==
    IF ms = <<>> THEN Returned(TextAfterMatches(s, result, last_end))
    ELSE LET m == Head(ms)
             r1 == TextBeforeMatch(s, result, last_end, m)
         IN IF m.parameter_name \notin DOMAIN schema
            THEN Raised(Exc("ValueError", "UnknownParameter"))
            ELSE chunksLoop(s, schema, Tail(ms),
                            Append(r1, EntityChunkOf(schema, m)), NextLastEnd(m))

chunks(s, cls) == chunksLoop(s, parameter_schema(cls), finditer(s, 0), <<>>, 0)

\* ------------------------------------------------------------------------
\* YAML values, as yaml.load decodes them
\* ------------------------------------------------------------------------
\* One record shape for every value: t is the Python type ("str", "int",
\* "list", "dict"), s the characters of a string, l the elements of a list
\* (scalars), d the entries of a mapping in document order. A nested mapping
\* (the fields of a custom payload) is an entry of type "dict" whose content
\* is kept in s as an opaque token.
Scalar(t, s) == [t |-> t, s |-> s]
Entry(k, t, s) == [k |-> k, t |-> t, s |-> s]
YStr(s) == [t |-> "str", s |-> s, l |-> <<>>, d |-> <<>>]
YInt == [t |-> "int", s |-> <<>>, l |-> <<>>, d |-> <<>>]
YNull == [t |-> "null", s |-> <<>>, l |-> <<>>, d |-> <<>>]
YList(l) == [t |-> "list", s |-> <<>>, l |-> l, d |-> <<>>]
YDict(d) == [t |-> "dict", s |-> <<>>, l |-> <<>>, d |-> d]

Keys(d) == {d[i].k : i \in 1..Len(d)}

\* ------------------------------------------------------------------------
\* Responses
\* ------------------------------------------------------------------------
IntentResponseGroupOpen == {"default", "rich", "weird"}

\* lines 151-159: the values of the enum
IntentResponseGroup == {"default", "rich"}

\* a response object: list holds choices or replies, fields the keyword
\* fields of an image or a card, or name and payload of a custom payload
Response(cls, list, fields) == [cls |-> cls, list |-> list, fields |-> fields]

\* TextIntentResponse.from_yaml
TextIntentResponse_from_yaml(data) ==
    IF data.t = "str"
    THEN Returned(Response("TextIntentResponse", <<Scalar("str", data.s)>>, <<>>))
    ELSE IF data.t # "list"
    THEN Raised(Exc("AssertionError", "MalformedResponse"))
    ELSE Returned(Response("TextIntentResponse", data.l, <<>>))

QuickReplyMaxLen == 20

\* a check of the first reply only
QuickReplies_post_init_first(replies) ==
    IF replies = <<>> THEN NoExc
    ELSE IF replies[1].t # "str" THEN Exc("TypeError", "ReplyHasNoLen")
    ELSE IF Len(replies[1].s) > QuickReplyMaxLen
    THEN Exc("ValueError", "QuickReplyTooLong")
    ELSE NoExc

\* QuickRepliesIntentResponse.__post_init__: the first reply that fails
QuickReplies_post_init(replies) ==
    LET bad == {i \in 1..Len(replies) :
                    replies[i].t # "str" \/ Len(replies[i].s) > QuickReplyMaxLen}
    IN IF bad = {} THEN NoExc
       ELSE LET i == CHOOSE x \in bad : \A y \in bad : x <= y
            IN IF replies[i].t # "str" THEN Exc("TypeError", "ReplyHasNoLen")
               ELSE Exc("ValueError", "QuickReplyTooLong")

QuickReplies_new(replies) ==
    LET e == QuickReplies_post_init(replies)
    IN IF e # NoExc THEN Raised(e)
       ELSE Returned(Response("QuickRepliesIntentResponse", replies, <<>>))

\* QuickRepliesIntentResponse.from_yaml
QuickRepliesIntentResponse_from_yaml(data) ==
    IF data.t = "str" THEN QuickReplies_new(<<Scalar("str", data.s)>>)
    ELSE IF data.t # "list"
    THEN Raised(Exc("AssertionError", "MalformedResponse"))
    ELSE QuickReplies_new(data.l)

\* cls(**data) of a dataclass: unknown or missing keyword arguments raise
Dataclass_new(cls, all, required, d) ==
    IF Keys(d) \subseteq all /\ required \subseteq Keys(d)
    THEN Returned(Response(cls, <<>>, d))
    ELSE Raised(Exc("TypeError", "BadKeywordArguments"))

\* ImageIntentResponse.from_yaml
ImageIntentResponse_from_yaml(data) ==
    IF data.t = "str"
    THEN Returned(Response("ImageIntentResponse", <<>>, <<Entry("url", "str", data.s)>>))
    ELSE IF data.t # "dict"
    THEN Raised(Exc("AssertionError", "MalformedResponse"))
    ELSE Dataclass_new("ImageIntentResponse", {"url", "title"}, {"url"}, data.d)

\* CardIntentResponse.from_yaml is IntentResponse.from_yaml: cls(**data)
CardIntentResponse_from_yaml(data) ==
    IF data.t # "dict" THEN Raised(Exc("TypeError", "NotAMapping"))
    ELSE Dataclass_new("CardIntentResponse",
                       {"title", "subtitle", "image", "link"}, {"title"}, data.d)

\* a from_yaml that takes any value as the payload
CustomPayloadIntentResponse_from_yaml_any(data) ==
    IF data.t # "dict" THEN Raised(Exc("ValueError", "MalformedPayload"))
    ELSE IF Len(data.d) # 1 THEN Raised(Exc("ValueError", "MalformedPayload"))
    ELSE Returned(Response("CustomPayloadIntentResponse", <<>>, <<data.d[1]>>))

\* CustomPayloadIntentResponse.from_yaml
CustomPayloadIntentResponse_from_yaml(data) ==
    IF data.t # "dict" THEN Raised(Exc("ValueError", "MalformedPayload"))
    ELSE IF Len(data.d) # 1 THEN Raised(Exc("ValueError", "MalformedPayload"))
    ELSE IF data.d[1].t # "dict" THEN Raised(Exc("ValueError", "MalformedPayload"))
    ELSE Returned(Response("CustomPayloadIntentResponse", <<>>, <<data.d[1]>>))

ResponseTypes == {"text", "quick_replies", "image", "card", "custom"}

\* line 441: what the `default` group takes
AllowedInDefault(r_type) == r_type = "text"

GroupCheckNever(response_group, r_type) == FALSE

\* line 441: the group check of an item
GroupCheckFails(response_group, r_type) ==
    response_group = "default" /\ ~AllowedInDefault(r_type)

DispatchElseText(r_type, r_data) ==
    CASE r_type = "quick_replies" -> QuickRepliesIntentResponse_from_yaml(r_data)
      [] r_type = "image" -> ImageIntentResponse_from_yaml(r_data)
      [] r_type = "card" -> CardIntentResponse_from_yaml(r_data)
      [] r_type = "custom" -> CustomPayloadIntentResponse_from_yaml(r_data)
      [] OTHER -> TextIntentResponse_from_yaml(r_data)

\* lines 444-455: dispatch on the item's key
Dispatch(r_type, r_data) ==
    CASE r_type = "text" -> TextIntentResponse_from_yaml(r_data)
      [] r_type = "quick_replies" -> QuickRepliesIntentResponse_from_yaml(r_data)
      [] r_type = "image" -> ImageIntentResponse_from_yaml(r_data)
      [] r_type = "card" -> CardIntentResponse_from_yaml(r_data)
      [] r_type = "custom" -> CustomPayloadIntentResponse_from_yaml(r_data)
      [] OTHER -> Raised(Exc("NotImplementedError", "UnsupportedResponseType"))

\* ------------------------------------------------------------------------
\* Language documents
\* ------------------------------------------------------------------------
\* What open() and yaml.load give for a language file: kind "missing" (no such
\* file), "null" (an empty file decodes to None) or "map". A section that is
\* absent has its has_ flag FALSE. A mapping is a sequence of entries in
\* document order; a response item is a mapping from keys to YAML values.
Missing ==
    [kind |-> "missing", has_examples |-> FALSE, examples |-> <<>>,
     has_prompts |-> FALSE, prompts |-> <<>>,
     has_responses |-> FALSE, responses |-> <<>>]

NullDoc == [Missing EXCEPT !.kind = "null"]

Section(present, v) == [present |-> present, v |-> v]

MapDoc(ex, pr, rs) ==
    [kind |-> "map", has_examples |-> ex.present, examples |-> ex.v,
     has_prompts |-> pr.present, prompts |-> pr.v,
     has_responses |-> rs.present, responses |-> rs.v]

ItemEntry(k, data) == [key |-> k, data |-> data]
Group(k, items) == [key |-> k, items |-> items]

PlainExample == <<"a">>
ExampleA == <<"$", "a", "{", "b", "}">>
ExampleB == <<"$", "b", "{", "a", "}">>
ExampleChoices == {PlainExample, ExampleA, ExampleB}

\* the prompts of `b`, a parameter of greet_friends and not of user_name_give
Prompt == [key |-> <<"b">>, prompts |-> <<<<"a", " ", "b">>>>]

TextItem == <<ItemEntry("text", YStr(<<"a">>))>>
CustomItem == <<ItemEntry("custom", YDict(<<Entry("loc", "dict", <<"a">>)>>))>>
QuickRepliesItem ==
    <<ItemEntry("quick_replies", YList(<<Scalar("str", <<"a">>), Scalar("str", <<"b">>)>>))>>
ImageItem == <<ItemEntry("image", YStr(<<"a">>))>>
ImageItemInt == <<ItemEntry("image", YInt)>>
CardItem == <<ItemEntry("card", YDict(<<Entry("title", "str", <<"a">>)>>))>>
VideoItem == <<ItemEntry("video", YStr(<<"a">>))>>
TwoKeyItem == <<ItemEntry("text", YStr(<<"a">>)), ItemEntry("image", YStr(<<"a">>))>>

ItemChoices ==
    {TextItem, CustomItem, QuickRepliesItem, ImageItem, ImageItemInt, CardItem,
     VideoItem, TwoKeyItem}

GroupKeys == {"default", "rich", "weird"}

GroupKeySeqs ==
    {ks \in SeqsUpTo(GroupKeys, MaxGroups) :
        \A i, j \in 1..Len(ks) : i # j => ks[i] # ks[j]}

\* the `responses` mapping with the group keys ks, whose groups take
\* lens[1], lens[2], ... of the items, in order
RECURSIVE SumTo(_, _)
SumTo(lens, g) == IF g = 0 THEN 0 ELSE lens[g] + SumTo(lens, g - 1)

Groups(ks, lens, items) ==
    [g \in 1..Len(ks) |->
        Group(ks[g], SubSeq(items, SumTo(lens, g - 1) + 1, SumTo(lens, g)))]

\* the documents of the agent's other languages: a representative few
GoodDoc ==
    MapDoc(Section(TRUE, <<PlainExample>>), Section(FALSE, <<>>),
           Section(TRUE, <<Group("default", <<TextItem>>)>>))
WeirdDoc ==
    MapDoc(Section(FALSE, <<>>), Section(FALSE, <<>>),
           Section(TRUE, <<Group("weird", <<>>)>>))
SiblingDocuments == {Missing, NullDoc, GoodDoc, WeirdDoc}

\* `if not language_data`: None and the empty mapping are falsy
IsEmptyDoc(doc) ==
    \/ doc.kind = "null"
    \/ doc.kind = "map" /\ ~doc.has_examples /\ ~doc.has_prompts /\ ~doc.has_responses

\* ------------------------------------------------------------------------
\* State
\* ------------------------------------------------------------------------
VARIABLES
    intent_cls,     \* the intent class whose language data is handled
    \* one ExampleUtterance handled on its own
    example,        \* the string of the ExampleUtterance under construction
    upc,            \* "new", "constructed", "raised" (constructor), "chunked"
    outcome,        \* what the last chunks() call returned or raised
    \* one call of intent_language_data(agent_cls, intent_cls, language_code)
    arg,            \* the caller's language_code; "" is None
    pc,             \* position of the call, "returned" and "raised" are final
    at,             \* the position at which the exception was raised
    lang_i,         \* index of the loop over agent_cls.languages
    language_code,  \* language of the (inner) call that loads one file
    language_data,  \* the document read from the language file
    ex_i,           \* index of the example being constructed
    examples,       \* the ExampleUtterances constructed so far
    g_i,            \* index of the response group being built
    r_i,            \* index of the item of that group being built
    responses,      \* _build_responses: result
    result,         \* the result dict of the loop over the languages
    ret,            \* the value returned to the caller
    exc,            \* the exception that reached the caller, then its causes
    parsed,         \* log: the examples and response items handed to a parser
    \* one response built on its own: cls.from_yaml(data) or cls(data)
    yaml_cls,       \* the response class called, "" before the call
    yaml_data,      \* the YAML value given to it
    yaml_out        \* what the call returned or raised

uvars == <<example, upc, outcome>>
pvars == <<yaml_cls, yaml_data, yaml_out>>
lvars == <<arg, pc, at, lang_i, language_code, language_data, ex_i, examples,
           g_i, r_i, responses, result, ret, exc, parsed>>
vars == <<intent_cls, uvars, lvars, pvars>>

\* agent_cls.languages
AgentLanguages == <<"en", "it">>

\* IntentLanguageData; responses is a dict (t = "dict") of groups or, for the
\* empty document, the list given at line 407 (t = "list")
Dict(groups) == [t |-> "dict", groups |-> groups]
List(groups) == [t |-> "list", groups |-> groups]
IntentLanguageData(ex, prompts, rs) ==
    [example_utterances |-> ex, slot_filling_prompts |-> prompts, responses |-> rs]

NoData == IntentLanguageData(<<>>, <<>>, List(<<>>))

\* a returned value: a dict from language code to data (kind "dict"), or a
\* bare IntentLanguageData (its one entry has language_code "")
NoValue == [kind |-> "none", entries |-> <<>>]
DictValue(entries) == [kind |-> "dict", entries |-> entries]
DataValue(data) ==
    [kind |-> "IntentLanguageData",
     entries |-> <<[language_code |-> "", data |-> data]>>]

ParserIdle ==
    /\ yaml_cls = ""
    /\ yaml_data = YNull
    /\ yaml_out = Returned(Response("", <<>>, <<>>))

LoaderIdle ==
    /\ arg = ""
    /\ pc = "idle"
    /\ at = ""
    /\ lang_i = 0
    /\ language_code = ""
    /\ language_data = NullDoc
    /\ ex_i = 0
    /\ examples = <<>>
    /\ g_i = 0
    /\ r_i = 0
    /\ responses = <<>>
    /\ result = <<>>
    /\ ret = NoValue
    /\ exc = <<>>
    /\ parsed = <<>>

\* ------------------------------------------------------------------------
\* ExampleUtterance: construction and chunks()
\* ------------------------------------------------------------------------
Fragments ==
    { <<"$", "a", "{", "b", "}">>, <<"$", "b", "{", "a", "}">>,
      <<"$", "a", "{">>, <<"$", "a", "{", "}">>, <<"}">>, <<" ">>, <<"a">>, <<"$">> }

ExampleStrings ==
    SeqsUpTo(Alphabet, MaxLen) \cup {Flatten(ps) : ps \in SeqsUpTo(Fragments, MaxParts)}

InitTok ==
    /\ intent_cls \in {c \in IntentClasses : ValidIntentClass(c)}
    /\ example \in ExampleStrings
    /\ upc = "new"
    /\ outcome = Returned(<<>>)
    /\ LoaderIdle
    /\ ParserIdle

\* a constructor that would leave the validation to the first chunks() call
NewExampleUtteranceLazy ==
    /\ upc = "new"
    /\ upc' = "constructed"
    /\ outcome' = Returned(<<>>)
    /\ UNCHANGED <<intent_cls, example, lvars, pvars>>

\* ExampleUtterance(example, intent): __init__ calls chunks() and drops its
\* result; an exception of chunks() leaves the constructor
NewExampleUtterance ==
    /\ upc = "new"
    /\ LET r == chunks(example, intent_cls)
       IN IF r.raised
          THEN upc' = "raised" /\ outcome' = r
          ELSE upc' = "constructed" /\ outcome' = Returned(<<>>)
    /\ UNCHANGED <<intent_cls, example, lvars, pvars>>

\* utterance.chunks() on a constructed ExampleUtterance
CallChunks ==
    /\ upc = "constructed"
    /\ outcome' = chunks(example, intent_cls)
    /\ upc' = "chunked"
    /\ UNCHANGED <<intent_cls, example, lvars, pvars>>

NextTok == NewExampleUtterance \/ CallChunks

SpecTok == InitTok /\ [][NextTok]_vars

\* ------------------------------------------------------------------------
\* intent_language_data() and _build_responses()
\* ------------------------------------------------------------------------
LanguageLoadError == Exc("RuntimeError", "LanguageLoad")

\* the raw exception, as it would leave a call without the except clause
WrapNot(chain, inner) == chain

\* lines 422-423: `raise RuntimeError(...) from e`, once per active call
WrapOnce(chain) == <<LanguageLoadError>> \o chain
Wrap(chain, inner) ==
    IF inner /\ arg = "" THEN WrapOnce(WrapOnce(chain)) ELSE WrapOnce(chain)

\* a failure that would hand the caller the languages loaded so far
FailWithResult(chain, inner) ==
    /\ pc' = "raised"
    /\ at' = pc
    /\ exc' = Wrap(chain, inner)
    /\ ret' = IF arg = "" THEN DictValue(result) ELSE NoValue

\* an exception leaves the call(s): the caller gets the wrapped exception
Fail(chain, inner) ==
    /\ pc' = "raised"
    /\ at' = pc
    /\ exc' = Wrap(chain, inner)
    /\ ret' = NoValue

\* the position after the examples, groups and items handled so far
PcAfterGroups(doc, g) == IF g <= Len(doc.responses) THEN "group" ELSE "assemble"
PcBeforeExamples(doc) == IF doc.examples # <<>> THEN "examples" ELSE "responses"

\* the inner call returns v: to the caller, or to line 393 of the outer call
ReturnInner(v) ==
    IF arg # ""
    THEN /\ pc' = "returned"
         /\ ret' = v
         /\ UNCHANGED <<at, exc, result, lang_i>>
    ELSE IF v.kind # "dict"
    THEN /\ Fail(<<Exc("TypeError", "NotSubscriptable")>>, FALSE)
         /\ UNCHANGED <<result, lang_i>>
    ELSE /\ result' = Append(result, v.entries[1])
         /\ lang_i' = lang_i + 1
         /\ pc' = "loop"
         /\ UNCHANGED <<at, exc, ret>>

\* intent_language_data(agent_cls, intent_cls, lc), lc = "" for None
Call(lc) ==
    /\ pc = "idle"
    /\ arg' = lc
    /\ IF lc = ""
       THEN pc' = "loop" /\ lang_i' = 1 /\ UNCHANGED language_code
       ELSE pc' = "open" /\ language_code' = lc /\ UNCHANGED lang_i
    /\ UNCHANGED <<intent_cls, uvars, pvars, at, language_data, ex_i, examples, g_i, r_i,
                   responses, result, ret, exc, parsed>>

\* lines 391-394: the loop over agent_cls.languages calls itself per language
NextLanguage ==
    /\ pc = "loop"
    /\ IF lang_i <= Len(AgentLanguages)
       THEN /\ language_code' = AgentLanguages[lang_i]
            /\ pc' = "open"
            /\ UNCHANGED ret
       ELSE /\ pc' = "returned"
            /\ ret' = DictValue(result)
            /\ UNCHANGED language_code
    /\ UNCHANGED <<intent_cls, uvars, pvars, arg, at, lang_i, language_data, ex_i,
                   examples, g_i, r_i, responses, result, exc, parsed>>

\* lines 399-410: the language file holds doc: decode it, test for emptiness
ReadFile(doc) ==
    /\ language_data' = doc
    /\ examples' = <<>>
    /\ responses' = <<>>
    /\ ex_i' = 1
    /\ g_i' = 0
    /\ r_i' = 0
    /\ IF doc.kind = "missing"
       THEN /\ Fail(<<Exc("ValueError", "FileNotFound")>>, TRUE)
            /\ UNCHANGED <<result, lang_i>>
       ELSE IF IsEmptyDoc(doc)
       THEN ReturnInner(DataValue(NoData))
       ELSE /\ pc' = PcBeforeExamples(doc)
            /\ UNCHANGED <<at, exc, ret, result, lang_i>>
    /\ UNCHANGED <<intent_cls, uvars, pvars, arg, language_code, parsed>>

\* lines 399-404: open and read the language file of language_code. The file
\* of the agent's first language holds any document of at most MaxEntries
\* entries (e examples, p prompts, k response items in at most MaxGroups
\* groups), the files of the other languages one of SiblingDocuments.
OpenFile ==
    /\ pc = "open"
    /\ IF language_code # AgentLanguages[1]
       THEN \E doc \in SiblingDocuments : ReadFile(doc)
       ELSE \/ \E doc \in {Missing, NullDoc} : ReadFile(doc)
            \/ \E e \in 0..MaxEntries, p \in 0..1 :
                \E k \in 0..(MaxEntries - e - p) :
                \E xs \in [1..e -> ExampleChoices], ks \in GroupKeySeqs :
                \E lens \in [1..Len(ks) -> 0..k], items \in [1..k -> ItemChoices] :
                \E has_ex, has_rs \in BOOLEAN :
                    /\ SumTo(lens, Len(ks)) = k
                    /\ e > 0 => has_ex
                    /\ Len(ks) > 0 => has_rs
                    /\ ReadFile(MapDoc(
                            Section(has_ex, xs),
                            Section(p > 0, IF p > 0 THEN <<Prompt>> ELSE <<>>),
                            Section(has_rs, Groups(ks, lens, items))))

\* a loader that would leave out an example that fails and go on
LoadExampleSkip ==
    /\ pc = "examples"
    /\ LET s == language_data.examples[ex_i]
           r == chunks(s, intent_cls)
       IN /\ parsed' = Append(parsed, [lc |-> language_code, kind |-> "example",
                                       g |-> 0, i |-> ex_i])
          /\ examples' = IF r.raised THEN examples ELSE Append(examples, s)
    /\ ex_i' = ex_i + 1
    /\ pc' = IF ex_i < Len(language_data.examples) THEN "examples" ELSE "responses"
    /\ UNCHANGED <<intent_cls, uvars, pvars, arg, at, exc, ret, lang_i, language_code,
                   language_data, g_i, r_i, responses, result>>

\* line 412: construct the next ExampleUtterance
LoadExample ==
    /\ pc = "examples"
    /\ LET s == language_data.examples[ex_i]
           r == chunks(s, intent_cls)
       IN /\ parsed' = Append(parsed, [lc |-> language_code, kind |-> "example", g |-> 0, i |-> ex_i])
          /\ IF r.raised
             THEN Fail(<<r.exc>>, TRUE) /\ UNCHANGED <<examples, ex_i>>
             ELSE /\ examples' = Append(examples, s)
                  /\ ex_i' = ex_i + 1
                  /\ pc' = IF ex_i < Len(language_data.examples)
                           THEN "examples" ELSE "responses"
                  /\ UNCHANGED <<at, exc, ret>>
    /\ UNCHANGED <<intent_cls, uvars, pvars, arg, lang_i, language_code, language_data,
                   g_i, r_i, responses, result>>

\* lines 410, 413, 427-431: enter _build_responses; the default of an absent
\* `responses` section is a list, which has no items()
EnterBuildResponses ==
    /\ pc = "responses"
    /\ IF ~language_data.has_responses
       THEN Fail(<<Exc("AttributeError", "ListHasNoItems")>>, TRUE) /\ UNCHANGED g_i
       ELSE /\ g_i' = 1
            /\ pc' = PcAfterGroups(language_data, 1)
            /\ UNCHANGED <<at, exc, ret>>
    /\ UNCHANGED <<intent_cls, uvars, pvars, arg, lang_i, language_code, language_data,
                   ex_i, examples, r_i, responses, result, parsed>>

\* lines 431-437: the next response group
BuildGroup ==
    /\ pc = "group"
    /\ LET g == language_data.responses[g_i]
       IN IF g.key \notin IntentResponseGroup
          THEN /\ Fail(<<Exc("NotImplementedError", "UnsupportedResponseGroup"),
                         Exc("ValueError", "NotAnIntentResponseGroup")>>, TRUE)
               /\ UNCHANGED <<responses, g_i, r_i>>
          ELSE /\ responses' = Append(responses, Group(g.key, <<>>))
               /\ IF g.items # <<>>
                  THEN pc' = "item" /\ r_i' = 1 /\ UNCHANGED g_i
                  ELSE /\ pc' = PcAfterGroups(language_data, g_i + 1)
                       /\ g_i' = g_i + 1
                       /\ UNCHANGED r_i
               /\ UNCHANGED <<at, exc, ret>>
    /\ UNCHANGED <<intent_cls, uvars, pvars, arg, lang_i, language_code, language_data,
                   ex_i, examples, result, parsed>>

\* lines 438-455: the next item of the group
BuildItem ==
    /\ pc = "item"
    /\ LET g == language_data.responses[g_i]
           r == g.items[r_i]
           r_type == r[1].key
           r_data == r[1].data
           res == Dispatch(r_type, r_data)
           failure ==
               IF Len(r) # 1 THEN Exc("AssertionError", "ItemNotSingleKey")
               ELSE IF GroupCheckFails(g.key, r_type)
               THEN Exc("ValueError", "InvalidResponseGroup")
               ELSE IF res.raised THEN res.exc
               ELSE NoExc
           handed == Len(r) = 1 /\ ~GroupCheckFails(g.key, r_type)
                        /\ r_type \in ResponseTypes
       IN /\ parsed' = IF handed
                       THEN Append(parsed, [lc |-> language_code, kind |-> "response",
                                            g |-> g_i, i |-> r_i])
                       ELSE parsed
          /\ IF failure # NoExc
             THEN Fail(<<failure>>, TRUE) /\ UNCHANGED <<responses, g_i, r_i>>
             ELSE /\ responses' =
                        [responses EXCEPT ![Len(responses)].items = Append(@, res.value)]
                  /\ IF r_i < Len(g.items)
                     THEN pc' = "item" /\ r_i' = r_i + 1 /\ UNCHANGED g_i
                     ELSE /\ pc' = PcAfterGroups(language_data, g_i + 1)
                          /\ g_i' = g_i + 1
                          /\ UNCHANGED r_i
                  /\ UNCHANGED <<at, exc, ret>>
    /\ UNCHANGED <<intent_cls, uvars, pvars, arg, lang_i, language_code, language_data,
                   ex_i, examples, result>>

\* an assembly that would leave the prompts out
AssembleNoPrompts ==
    /\ pc = "assemble"
    /\ ReturnInner(DictValue(<<
            [language_code |-> language_code,
             data |-> IntentLanguageData(examples, <<>>, Dict(responses))]>>))
    /\ UNCHANGED <<intent_cls, uvars, pvars, arg, language_code, language_data, ex_i,
                   examples, g_i, r_i, responses, parsed>>

\* lines 415-421: assemble the IntentLanguageData and return it in a dict
Assemble ==
    /\ pc = "assemble"
    /\ ReturnInner(DictValue(<<
            [language_code |-> language_code,
             data |-> IntentLanguageData(examples, language_data.prompts,
                                         Dict(responses))]>>))
    /\ UNCHANGED <<intent_cls, uvars, pvars, arg, language_code, language_data, ex_i,
                   examples, g_i, r_i, responses, parsed>>

\* the intent classes whose language data is loaded: one that lacks a
\* parameter the examples name, one that has them all
LoadedIntentClasses == {user_name_give, greet_friends}

Init ==
    /\ intent_cls \in {c \in LoadedIntentClasses : ValidIntentClass(c)}
    /\ example = <<>>
    /\ upc = "new"
    /\ outcome = Returned(<<>>)
    /\ LoaderIdle
    /\ ParserIdle

Next ==
    \/ \E lc \in {""} \cup {AgentLanguages[i] : i \in 1..Len(AgentLanguages)} : Call(lc)
    \/ NextLanguage
    \/ OpenFile
    \/ LoadExample
    \/ EnterBuildResponses
    \/ BuildGroup
    \/ BuildItem
    \/ Assemble

Spec == Init /\ [][Next]_vars

\* ------------------------------------------------------------------------
\* Properties of ExampleUtterance.chunks() (checked under SpecTok)
\* ------------------------------------------------------------------------
IsTextChunk(c) == c.cls = "TextUtteranceChunk"
IsEntityChunk(c) == c.cls = "EntityUtteranceChunk"

\* a well-formed annotation $name{value} occupies the positions i..k of s
\* (1-based), with "{" at position j: the pattern, stated without the scan
WellFormedAt(s, i, j, k) ==
    /\ s[i] = "$"
    /\ i + 1 < j /\ \A p \in (i + 1)..(j - 1) : s[p] \in WordChars
    /\ s[j] = "{"
    /\ j + 1 < k /\ \A p \in (j + 1)..(k - 1) : s[p] # "}"
    /\ s[k] = "}"

HasAnnotation(s) ==
    \E i \in 1..Len(s) : \E j \in i..Len(s) : \E k \in j..Len(s) :
        WellFormedAt(s, i, j, k)

\* the chunk as it is written in an example
ChunkMarkup(c) ==
    IF IsTextChunk(c) THEN c.text
    ELSE <<"$">> \o c.parameter_name \o <<"{">> \o c.parameter_value \o <<"}">>

RECURSIVE Reconstruct(_)
Reconstruct(cs) ==
    IF cs = <<>> THEN <<>> ELSE ChunkMarkup(Head(cs)) \o Reconstruct(Tail(cs))

\* C7: chunks() never returns a text chunk whose text is empty (no text chunk
\* between two adjacent annotations, none for empty leading or trailing text).
C7_NoEmptyTextChunk ==
    upc = "chunked" =>
        \A i \in 1..Len(outcome.value) :
            IsTextChunk(outcome.value[i]) => outcome.value[i].text # <<>>

\* C8: the chunks of an example whose annotations all name schema parameters,
\* written back in order (text as it is, entities as $name{value}), give the
\* example string itself.
C8_RoundTrip ==
    upc = "chunked" => Reconstruct(outcome.value) = example

\* C8 witness: chunks() returned text and entity chunks of one example
C8_Witness ==
    /\ upc = "chunked"
    /\ Len(outcome.value) >= 3
    /\ \E i, j \in 1..Len(outcome.value) :
        IsTextChunk(outcome.value[i]) /\ IsEntityChunk(outcome.value[j])

\* C9: an example without a well-formed annotation never makes chunks() fail,
\* whatever the schema, and chunks() returns the whole input as one text
\* chunk, or no chunk for the empty string.
C9_NoAnnotation ==
    ~HasAnnotation(example) =>
        /\ upc # "raised"
        /\ upc = "chunked" =>
            outcome.value =
                IF example = <<>> THEN <<>> ELSE <<TextUtteranceChunk(example)>>

\* C9 witness: chunks() returned for an example with unbalanced markers
C9_Witness ==
    /\ upc = "chunked"
    /\ ~HasAnnotation(example)
    /\ \E i \in 1..(Len(example) - 2) :
        example[i] = "$" /\ example[i + 1] \in WordChars /\ example[i + 2] = "{"
    /\ outcome.value = <<TextUtteranceChunk(example)>>

\* C10: for an example whose annotations all name schema parameters, the
\* entity chunks of chunks() are the annotations from left to right, each with
\* the annotation's name, the text between its braces and the entity type
\* the schema binds to the name.
C10_EntityChunks ==
    upc = "chunked" =>
        LET ms == finditer(example, 0)
            schema == parameter_schema(intent_cls)
            es == SelectSeq(outcome.value, IsEntityChunk)
        IN /\ Len(es) = Len(ms)
           /\ \A i \in 1..Len(ms) :
                /\ WellFormedAt(example, ms[i].start + 1,
                                ms[i].start + 2 + Len(es[i].parameter_name),
                                ms[i].end)
                /\ es[i].parameter_name =
                     Slice(example, ms[i].start + 1,
                           ms[i].start + 1 + Len(es[i].parameter_name))
                /\ es[i].parameter_value =
                     Slice(example, ms[i].start + 2 + Len(es[i].parameter_name),
                           ms[i].end - 1)
                /\ es[i].entity_cls = schema[es[i].parameter_name].entity_cls
                /\ i > 1 => ms[i - 1].end <= ms[i].start

\* C10 witness: two annotations of different parameters were chunked
C10_Witness ==
    /\ upc = "chunked"
    /\ LET es == SelectSeq(outcome.value, IsEntityChunk)
       IN /\ Len(es) = 2
          /\ es[1].parameter_name # es[2].parameter_name
          /\ es[1].entity_cls # es[2].entity_cls

\* ------------------------------------------------------------------------
\* Properties of intent_language_data() (checked under Spec)
\* ------------------------------------------------------------------------
Final == pc \in {"returned", "raised"}

\* the error that the wrapping load error(s) carry as cause
Cause ==
    exc[CHOOSE i \in 1..Len(exc) :
            /\ exc[i] # LanguageLoadError
            /\ \A j \in 1..(i - 1) : exc[j] = LanguageLoadError]

HasData(lc) == \E i \in 1..Len(ret.entries) : ret.entries[i].language_code = lc
DataOf(lc) ==
    ret.entries[CHOOSE i \in 1..Len(ret.entries) :
                    ret.entries[i].language_code = lc].data

\* the group and the item at which _build_responses stands
CurGroup == language_data.responses[g_i]
CurItem == CurGroup.items[r_i]
RaisedAtItem == pc = "raised" /\ at = "item"
RaisedAtGroup == pc = "raised" /\ at = "group"
WasParsed(g, i) ==
    \E n \in 1..Len(parsed) :
        /\ parsed[n].lc = language_code /\ parsed[n].kind = "response"
        /\ parsed[n].g = g /\ parsed[n].i = i

GroupIndexes(doc) == 1..Len(doc.responses)
ItemIndexes(doc, g) == 1..Len(doc.responses[g].items)
HasKeyIn(item, ks) == \E n \in 1..Len(item) : item[n].key \in ks

\* a document whose entries cannot fail by themselves: examples without
\* annotation, known groups, plain text responses
Harmless(doc) ==
    /\ \A i \in 1..Len(doc.examples) : ~HasAnnotation(doc.examples[i])
    /\ \A g \in GroupIndexes(doc) :
        /\ doc.responses[g].key \in {"default", "rich"}
        /\ \A i \in ItemIndexes(doc, g) : doc.responses[g].items[i] = TextItem

\* C1: loading a null or empty document succeeds, with one language or with
\* all of them, and gives language code -> IntentLanguageData with an empty
\* example sequence, empty slot_filling_prompts and an empty responses mapping.
C1_EmptyDocumentLoads ==
    (Final /\ IsEmptyDoc(language_data)) =>
        /\ pc = "returned"
        /\ ret.kind = "dict"
        /\ HasData(language_code)
        /\ DataOf(language_code) = IntentLanguageData(<<>>, <<>>, Dict(<<>>))

\* C2: every section of a non-empty document is optional: a document that
\* omits examples, slot_filling_prompts or responses loads, and the omitted
\* section is an empty sequence, an empty mapping, an empty mapping.
C2_OmittedSectionsDefault ==
    (/\ Final
     /\ language_data.kind = "map" /\ ~IsEmptyDoc(language_data)
     /\ Harmless(language_data)
     /\ ~(language_data.has_examples /\ language_data.has_prompts
            /\ language_data.has_responses)) =>
        /\ pc = "returned"
        /\ HasData(language_code)
        /\ ~language_data.has_examples =>
                DataOf(language_code).example_utterances = <<>>
        /\ ~language_data.has_prompts =>
                DataOf(language_code).slot_filling_prompts = <<>>
        /\ ~language_data.has_responses =>
                DataOf(language_code).responses = Dict(<<>>)

ResponseClassOf(key) ==
    CASE key = "text" -> "TextIntentResponse"
      [] key = "quick_replies" -> "QuickRepliesIntentResponse"
      [] key = "image" -> "ImageIntentResponse"
      [] key = "card" -> "CardIntentResponse"
      [] key = "custom" -> "CustomPayloadIntentResponse"
      [] OTHER -> ""

\* C3: a `default` group of well-formed text and custom items is accepted:
\* the DEFAULT group of the result holds one TextIntentResponse or
\* CustomPayloadIntentResponse per item.
C3_DefaultAcceptsTextAndCustom ==
    (/\ Final
     /\ language_data.kind = "map" /\ language_data.has_responses
     /\ \A i \in 1..Len(language_data.examples) :
            ~HasAnnotation(language_data.examples[i])
     /\ Len(language_data.responses) = 1
     /\ language_data.responses[1].key = "default"
     /\ \A i \in ItemIndexes(language_data, 1) :
            language_data.responses[1].items[i] \in {TextItem, CustomItem}) =>
        /\ pc = "returned"
        /\ HasData(language_code)
        /\ LET src == language_data.responses[1].items
               built == DataOf(language_code).responses.groups
           IN /\ Len(built) = 1
              /\ built[1].key = "default"
              /\ Len(built[1].items) = Len(src)
              /\ \A i \in 1..Len(src) :
                    built[1].items[i].cls = ResponseClassOf(src[i][1].key)

RichOnlyTypes == {"quick_replies", "image", "card"}
InvalidResponseGroupError == Exc("ValueError", "InvalidResponseGroup")
UnsupportedResponseTypeError == Exc("NotImplementedError", "UnsupportedResponseType")
UnsupportedResponseGroupError == Exc("NotImplementedError", "UnsupportedResponseGroup")

\* the items of the `default` group that hold a key of a rich-only type
RichOnlyInDefault(doc) ==
    {p \in GroupIndexes(doc) \X (1..MaxEntries + 1) :
        /\ doc.responses[p[1]].key = "default"
        /\ p[2] \in ItemIndexes(doc, p[1])
        /\ HasKeyIn(doc.responses[p[1]].items[p[2]], RichOnlyTypes)}

\* the items that a built `rich` group took over from the document
RichAccepted ==
    \A g \in 1..Len(responses) :
        responses[g].key = "rich" =>
            \A i \in 1..Len(responses[g].items) :
                LET item == language_data.responses[g].items[i]
                IN item[1].key \in RichOnlyTypes =>
                        responses[g].items[i].cls = ResponseClassOf(item[1].key)

\* C4 as stated: a document whose `default` group holds an item keyed
\* quick_replies, image or card fails to load with the invalid-response-group
\* error, whatever the payload and before it is parsed; the `rich` group
\* accepts the same items.
C4_DefaultRejectsRichTypes ==
    /\ (Final /\ language_data.kind = "map"
            /\ RichOnlyInDefault(language_data) # {}) =>
            /\ pc = "raised"
            /\ Cause = InvalidResponseGroupError
            /\ \A p \in RichOnlyInDefault(language_data) : ~WasParsed(p[1], p[2])
    /\ RichAccepted

\* C4 as amended: such a document always fails to load and the item is never
\* parsed; the error is the invalid-response-group error when loading reaches
\* the item, which then has a single key (no example, group or item before it
\* failed); in the `rich` group a single-key item of these types is never
\* refused for its group, and is taken over when its payload is well-formed.
C4_DefaultRejectsRichTypesWhenReached ==
    /\ (Final /\ language_data.kind = "map"
            /\ RichOnlyInDefault(language_data) # {}) =>
            /\ pc = "raised"
            /\ \A p \in RichOnlyInDefault(language_data) : ~WasParsed(p[1], p[2])
    /\ (RaisedAtItem /\ CurGroup.key = "default" /\ Len(CurItem) = 1
            /\ CurItem[1].key \in RichOnlyTypes) =>
            Cause = InvalidResponseGroupError
    /\ (RaisedAtItem /\ CurGroup.key = "rich" /\ Len(CurItem) = 1
            /\ CurItem[1].key \in RichOnlyTypes) =>
            /\ Cause # InvalidResponseGroupError
            /\ WasParsed(g_i, r_i)
            /\ CurItem \notin {QuickRepliesItem, ImageItem, CardItem}
    /\ RichAccepted

\* C4 witness: an image item with a malformed payload was refused in `default`
C4_Witness ==
    /\ RaisedAtItem
    /\ CurGroup.key = "default"
    /\ CurItem = ImageItemInt
    /\ Cause = InvalidResponseGroupError
    /\ ~WasParsed(g_i, r_i)

UnknownTypeAtItem ==
    RaisedAtItem /\ Len(CurItem) = 1 /\ CurItem[1].key \notin ResponseTypes

UnknownTypeItems(doc) ==
    {p \in GroupIndexes(doc) \X (1..MaxEntries + 1) :
        /\ doc.responses[p[1]].key \in IntentResponseGroup
        /\ p[2] \in ItemIndexes(doc, p[1])
        /\ LET item == doc.responses[p[1]].items[p[2]]
           IN Len(item) = 1 /\ item[1].key \notin ResponseTypes}

\* C5 as stated: in either group an item whose key is none of text,
\* quick_replies, image, card, custom fails with the
\* unsupported-response-type error, which is not the invalid-response-group
\* error.
C5_UnknownTypeUnsupported ==
    /\ UnknownTypeAtItem => Cause = UnsupportedResponseTypeError
    /\ UnsupportedResponseTypeError # InvalidResponseGroupError
    /\ (Final /\ language_data.kind = "map"
            /\ UnknownTypeItems(language_data) # {}) => pc = "raised"

\* C5 as amended: an item with an unknown key always fails the load; in the
\* `rich` group with the unsupported-response-type error, in the `default`
\* group with the invalid-response-group error, a different error.
C5_UnknownTypeByGroup ==
    /\ (UnknownTypeAtItem /\ CurGroup.key = "rich") =>
            Cause = UnsupportedResponseTypeError
    /\ (UnknownTypeAtItem /\ CurGroup.key = "default") =>
            Cause = InvalidResponseGroupError
    /\ UnsupportedResponseTypeError.type # InvalidResponseGroupError.type
    /\ (Final /\ language_data.kind = "map"
            /\ UnknownTypeItems(language_data) # {}) => pc = "raised"

\* C5 witness: an item with an unknown key failed in the `rich` group
C5_Witness ==
    /\ UnknownTypeAtItem
    /\ CurGroup.key = "rich"
    /\ Cause = UnsupportedResponseTypeError

UnknownGroups(doc) ==
    {g \in GroupIndexes(doc) : doc.responses[g].key \notin {"default", "rich"}}

NoItemParsed(g) ==
    \A n \in 1..Len(parsed) :
        (parsed[n].lc = language_code /\ parsed[n].kind = "response") =>
            parsed[n].g # g

\* C6 as stated: a document with a group key other than default and rich
\* fails to load with the unsupported-response-group error, and no item of
\* that group is parsed.
C6_UnknownGroupUnsupported ==
    (Final /\ language_data.kind = "map" /\ UnknownGroups(language_data) # {}) =>
        /\ pc = "raised"
        /\ Cause = UnsupportedResponseGroupError
        /\ \A g \in UnknownGroups(language_data) : NoItemParsed(g)

\* C6 as amended: such a document always fails to load and no item of that
\* group is ever parsed; the error is the unsupported-response-group error
\* when loading reaches the group key (no example and no earlier group
\* failed), and only then.
C6_UnknownGroupWhenReached ==
    /\ (Final /\ language_data.kind = "map" /\ UnknownGroups(language_data) # {}) =>
            /\ pc = "raised"
            /\ \A g \in UnknownGroups(language_data) : NoItemParsed(g)
            /\ (at = "group" /\ g_i \in UnknownGroups(language_data)) =>
                    Cause = UnsupportedResponseGroupError
    /\ RaisedAtGroup =>
            /\ g_i \in UnknownGroups(language_data)
            /\ Cause = UnsupportedResponseGroupError
    /\ (pc = "raised" /\ Cause = UnsupportedResponseGroupError) => RaisedAtGroup

\* C6 witness: an unknown group that has items failed at its key
C6_Witness ==
    /\ RaisedAtGroup
    /\ CurGroup.key = "weird"
    /\ CurGroup.items # <<>>
    /\ Cause = UnsupportedResponseGroupError
    /\ NoItemParsed(g_i)

\* ------------------------------------------------------------------------
\* Validation of an example at construction (checked under SpecTok)
\* ------------------------------------------------------------------------
\* the annotation that starts at position i of s (1-based), if there is one
AnnotationAt(s, i) ==
    \E j \in i..Len(s) : \E k \in j..Len(s) : WellFormedAt(s, i, j, k)
AnnotationBrace(s, i) ==
    CHOOSE j \in i..Len(s) : \E k \in j..Len(s) : WellFormedAt(s, i, j, k)
AnnotationEnd(s, i) ==
    CHOOSE k \in i..Len(s) : \E j \in i..k : WellFormedAt(s, i, j, k)
AnnotationName(s, i) == SubSeq(s, i + 1, AnnotationBrace(s, i) - 1)

\* the annotations of s read from left to right from position i on: what
\* stands between the braces of an annotation is its value, not an annotation
RECURSIVE Annotations(_, _)
Annotations(s, i) ==
    IF i > Len(s) THEN {}
    ELSE IF AnnotationAt(s, i) THEN {i} \cup Annotations(s, AnnotationEnd(s, i) + 1)
    ELSE Annotations(s, i + 1)

SchemaNames(cls) == {cls.fields[i].name : i \in 1..Len(cls.fields)}
NamesUnknownParameter(s, cls) ==
    \E i \in Annotations(s, 1) : AnnotationName(s, i) \notin SchemaNames(cls)

UnknownParameterError == Exc("ValueError", "UnknownParameter")

\* C11: constructing an ExampleUtterance fails, with the unknown-parameter
\* error, exactly when one of its annotations names a parameter that the
\* intent's schema lacks; the failure is the constructor's, and chunks() on a
\* constructed example never fails.
C11_EagerValidation ==
    /\ upc # "new" =>
            (upc = "raised" <=> NamesUnknownParameter(example, intent_cls))
    /\ upc = "raised" => outcome = Raised(UnknownParameterError)
    /\ upc \in {"constructed", "chunked"} => ~outcome.raised

\* C11 witness: the constructor failed on the second annotation of an example
\* whose first annotation names a schema parameter
C11_Witness ==
    /\ upc = "raised"
    /\ outcome.exc = UnknownParameterError
    /\ Cardinality(Annotations(example, 1)) = 2
    /\ 1 \in Annotations(example, 1)
    /\ AnnotationName(example, 1) \in SchemaNames(intent_cls)

\* ------------------------------------------------------------------------
\* Response classes called on their own: cls.from_yaml(data), cls(replies)
\* ------------------------------------------------------------------------
MaxReplies == 3  \* YAML values: lists of at most MaxReplies elements
MaxKeys == 2     \* YAML values: mappings of at most MaxKeys keys

\* a string of n characters
Chars(n) == [i \in 1..n |-> "a"]

\* string lengths around the limit of a quick reply
StringLens == {0, 1, QuickReplyMaxLen - 1, QuickReplyMaxLen, QuickReplyMaxLen + 1}

ScalarChoices == {Scalar("str", Chars(n)) : n \in StringLens} \cup {Scalar("int", <<>>)}
EntryKeys == {"loc", "url", "title"}
EntryChoices ==
    {Entry(k, t, <<"a">>) : k \in EntryKeys, t \in {"dict", "str", "int"}}

YamlValues ==
    {YNull, YInt}
    \cup {YStr(Chars(n)) : n \in StringLens}
    \cup {YList(l) : l \in SeqsUpTo(ScalarChoices, MaxReplies)}
    \cup {YDict(d) : d \in {e \in SeqsUpTo(EntryChoices, MaxKeys) :
                                \A i, j \in 1..Len(e) : i # j => e[i].k # e[j].k}}

InitYaml ==
    /\ intent_cls = hello
    /\ example = <<>>
    /\ upc = "new"
    /\ outcome = Returned(<<>>)
    /\ LoaderIdle
    /\ yaml_cls = ""
    /\ yaml_data \in YamlValues
    /\ yaml_out = Returned(Response("", <<>>, <<>>))

\* the call c of a response class gave r
CallResponseClass(c, r) ==
    /\ yaml_cls = ""
    /\ yaml_cls' = c
    /\ yaml_out' = r
    /\ UNCHANGED <<intent_cls, uvars, lvars, yaml_data>>

TextFromYaml ==
    CallResponseClass("TextIntentResponse.from_yaml",
                      TextIntentResponse_from_yaml(yaml_data))
QuickRepliesFromYaml ==
    CallResponseClass("QuickRepliesIntentResponse.from_yaml",
                      QuickRepliesIntentResponse_from_yaml(yaml_data))
ImageFromYaml ==
    CallResponseClass("ImageIntentResponse.from_yaml",
                      ImageIntentResponse_from_yaml(yaml_data))
CardFromYaml ==
    CallResponseClass("CardIntentResponse.from_yaml",
                      CardIntentResponse_from_yaml(yaml_data))
CustomPayloadFromYaml ==
    CallResponseClass("CustomPayloadIntentResponse.from_yaml",
                      CustomPayloadIntentResponse_from_yaml(yaml_data))

\* QuickRepliesIntentResponse(replies) with a list of replies
NewQuickReplies ==
    /\ yaml_data.t = "list"
    /\ CallResponseClass("QuickRepliesIntentResponse", QuickReplies_new(yaml_data.l))

NextYaml ==
    \/ TextFromYaml
    \/ QuickRepliesFromYaml
    \/ ImageFromYaml
    \/ CardFromYaml
    \/ CustomPayloadFromYaml
    \/ NewQuickReplies

SpecYaml == InitYaml /\ [][NextYaml]_vars

\* ------------------------------------------------------------------------
\* Properties of the response classes (checked under SpecYaml)
\* ------------------------------------------------------------------------
AllStrings(l) == \A i \in 1..Len(l) : l[i].t = "str"
MalformedResponseError == Exc("AssertionError", "MalformedResponse")
QuickReplyTooLongError == Exc("ValueError", "QuickReplyTooLong")
MalformedPayloadError == Exc("ValueError", "MalformedPayload")

\* C12: TextIntentResponse.from_yaml takes a string s, with choices = [s],
\* and a sequence of strings, with choices = that sequence; every other
\* input (a mapping, a number, null, a sequence with a non-string element)
\* fails with the malformed-response error.
C12_TextShapes ==
    yaml_cls = "TextIntentResponse.from_yaml" =>
        IF yaml_data.t = "str"
        THEN /\ ~yaml_out.raised
             /\ yaml_out.value.list = <<Scalar("str", yaml_data.s)>>
        ELSE IF yaml_data.t = "list" /\ AllStrings(yaml_data.l)
        THEN /\ ~yaml_out.raised
             /\ yaml_out.value.list = yaml_data.l
        ELSE /\ yaml_out.raised
             /\ yaml_out.exc = MalformedResponseError

\* the replies that a call of QuickRepliesIntentResponse is given
RepliesGiven == IF yaml_data.t = "str" THEN <<Scalar("str", yaml_data.s)>> ELSE yaml_data.l
QuickRepliesCalled ==
    /\ yaml_cls \in {"QuickRepliesIntentResponse.from_yaml", "QuickRepliesIntentResponse"}
    /\ yaml_data.t \in {"str", "list"}
    /\ AllStrings(RepliesGiven)

QuickReplyOfTwentyAccepted ==
    /\ QuickRepliesCalled
    /\ \E i \in 1..Len(RepliesGiven) : Len(RepliesGiven[i].s) = 20
    /\ ~yaml_out.raised

\* the input is a mapping with exactly one key whose value is a mapping
IsNamedPayload(data) == data.t = "dict" /\ Len(data.d) = 1 /\ data.d[1].t = "dict"

\* C14: CustomPayloadIntentResponse.from_yaml succeeds exactly on a mapping
\* with one key whose value is a mapping, and returns that key as name and
\* that value as payload; every other input fails with the malformed-payload
\* error.
C14_CustomPayloadShape ==
    yaml_cls = "CustomPayloadIntentResponse.from_yaml" =>
        IF IsNamedPayload(yaml_data)
        THEN /\ ~yaml_out.raised
             /\ yaml_out.value.cls = "CustomPayloadIntentResponse"
             /\ Len(yaml_out.value.fields) = 1
             /\ yaml_out.value.fields[1].k = yaml_data.d[1].k
             /\ yaml_out.value.fields[1].s = yaml_data.d[1].s
        ELSE /\ yaml_out.raised
             /\ yaml_out.exc = MalformedPayloadError

\* C14 witness: from_yaml refused a mapping with one key whose value is not a
\* mapping
C14_Witness ==
    /\ yaml_cls = "CustomPayloadIntentResponse.from_yaml"
    /\ yaml_data.t = "dict"
    /\ Len(yaml_data.d) = 1
    /\ yaml_data.d[1].t = "str"
    /\ yaml_out.raised
    /\ yaml_out.exc = MalformedPayloadError

\* ------------------------------------------------------------------------
\* Failures of intent_language_data() (checked under Spec)
\* ------------------------------------------------------------------------
\* the errors that the code raises at each position of a call
RaisedAt(p) ==
    CASE p = "open" ->
            {Exc("ValueError", "FileNotFound"), Exc("TypeError", "NotSubscriptable")}
      [] p = "examples" -> {UnknownParameterError}
      [] p = "responses" -> {Exc("AttributeError", "ListHasNoItems")}
      [] p = "group" -> {UnsupportedResponseGroupError}
      [] p = "item" ->
            {Exc("AssertionError", "ItemNotSingleKey"), InvalidResponseGroupError,
             UnsupportedResponseTypeError, MalformedResponseError,
             QuickReplyTooLongError, MalformedPayloadError,
             Exc("TypeError", "ReplyHasNoLen"), Exc("TypeError", "BadKeywordArguments"),
             Exc("TypeError", "NotAMapping")}
      [] OTHER -> {}

\* the number of wrapping load errors at the head of the chain
RECURSIVE Wrappers(_)
Wrappers(chain) ==
    IF chain # <<>> /\ Head(chain) = LanguageLoadError
    THEN 1 + Wrappers(Tail(chain)) ELSE 0

\* C15 as stated: a failure reaches the caller as one wrapping load error
\* whose cause is the original error, for a call with a language code and
\* for a call that loads all the languages.
C15_SingleWrappingError ==
    pc = "raised" =>
        /\ Wrappers(exc) = 1
        /\ Len(exc) >= 2
        /\ exc[2] \in RaisedAt(at)

\* C15 as amended: a failure reaches the caller as a wrapping load error and
\* never as the raw error; for a call with a language code its cause is the
\* original error; for a call that loads all the languages a failure inside
\* the load of one language is wrapped twice, the caller's error having as
\* cause the wrapping error of that language, which has the original error as
\* its cause.
C15_WrappedOncePerCall ==
    pc = "raised" =>
        /\ exc[1] = LanguageLoadError
        /\ Cause \in RaisedAt(at)
        /\ Cause = exc[Wrappers(exc) + 1]
        /\ arg # "" => Wrappers(exc) = 1
        /\ arg = "" =>
            Wrappers(exc) = IF Cause = Exc("TypeError", "NotSubscriptable") THEN 1 ELSE 2

\* C15 witness: loading all the languages failed on an example of the first
\* language
C15_Witness ==
    /\ pc = "raised"
    /\ arg = ""
    /\ at = "examples"
    /\ exc = <<LanguageLoadError, LanguageLoadError, UnknownParameterError>>

\* what is invalid in a document, judged entry by entry
InvalidExamples(doc) ==
    {i \in 1..Len(doc.examples) : NamesUnknownParameter(doc.examples[i], intent_cls)}
ItemError(group_key, item) ==
    IF Len(item) # 1 THEN Exc("AssertionError", "ItemNotSingleKey")
    ELSE IF group_key = "default" /\ item[1].key # "text" THEN InvalidResponseGroupError
    ELSE IF item[1].key \notin ResponseTypes THEN UnsupportedResponseTypeError
    ELSE Dispatch(item[1].key, item[1].data).exc
InvalidItems(doc, g) ==
    {i \in ItemIndexes(doc, g) :
        ItemError(doc.responses[g].key, doc.responses[g].items[i]) # NoExc}
InvalidGroups(doc) ==
    {g \in GroupIndexes(doc) : g \in UnknownGroups(doc) \/ InvalidItems(doc, g) # {}}
Least(S) == CHOOSE x \in S : \A y \in S : x <= y

\* the entries of the log that belong to the load of the current language
ParsedExamples ==
    {parsed[n].i : n \in {m \in 1..Len(parsed) :
        parsed[m].lc = language_code /\ parsed[m].kind = "example"}}
ParsedItems ==
    {<<parsed[n].g, parsed[n].i>> : n \in {m \in 1..Len(parsed) :
        parsed[m].lc = language_code /\ parsed[m].kind = "response"}}

\* C16: a document with an invalid example or response item gives no
\* IntentLanguageData for its language; the error is that of the first
\* invalid entry in processing order (examples, then the groups and their
\* items, in document order) and nothing after that entry is processed.
C16_FailFast ==
    LET doc == language_data
    IN (Final /\ doc.kind = "map"
            /\ (InvalidExamples(doc) # {} \/ InvalidGroups(doc) # {})) =>
        /\ pc = "raised"
        /\ ret = NoValue
        /\ IF InvalidExamples(doc) # {}
           THEN /\ at = "examples"
                /\ ex_i = Least(InvalidExamples(doc))
                /\ Cause = UnknownParameterError
                /\ ParsedExamples = 1..ex_i
                /\ ParsedItems = {}
           ELSE LET g == Least(InvalidGroups(doc))
                IN /\ g_i = g
                   /\ ParsedExamples = 1..Len(doc.examples)
                   /\ \A p \in ParsedItems :
                        p[1] < g \/ (p[1] = g /\ at = "item" /\ p[2] <= r_i)
                   /\ IF g \in UnknownGroups(doc)
                      THEN at = "group" /\ Cause = UnsupportedResponseGroupError
                      ELSE /\ at = "item"
                           /\ r_i = Least(InvalidItems(doc, g))
                           /\ Cause = ItemError(doc.responses[g].key,
                                                doc.responses[g].items[r_i])

\* C16 witness: a load with a language code failed at the first of two invalid
\* items of a group, which raise different errors
C16_Witness ==
    /\ pc = "raised"
    /\ arg # ""
    /\ at = "item"
    /\ r_i = 1
    /\ Len(CurGroup.items) = 2
    /\ ItemError(CurGroup.key, CurGroup.items[2]) \notin {NoExc, Cause}
    /\ ret = NoValue

\* the languages whose data the loop of lines 391-393 holds in `result`
LoadedLanguages == {result[i].language_code : i \in 1..Len(result)}
ResultOf(lc) ==
    result[CHOOSE i \in 1..Len(result) : result[i].language_code = lc].data

\* C17 as stated: when the languages are loaded one after another and the
\* load of one language fails, the data already loaded for the other
\* languages is unchanged and the caller has it.
C17_SiblingDataAvailable ==
    (arg = "" /\ pc = "raised") =>
        \A lc \in LoadedLanguages : HasData(lc) /\ DataOf(lc) = ResultOf(lc)

\* C17 as amended: a call that loads all the languages gives the caller the
\* data of every language, as loaded, or none at all: when the load of one
\* language fails the call raises and the data already loaded for the
\* languages before it does not reach the caller.
C17_AllLanguagesOrNone ==
    (arg = "" /\ Final) =>
        IF pc = "raised"
        THEN ret = NoValue /\ \A lc \in LoadedLanguages : ~HasData(lc)
        ELSE /\ ret = DictValue(result)
             /\ Len(result) = Len(AgentLanguages)
             /\ \A i \in 1..Len(result) : result[i].language_code = AgentLanguages[i]

\* C17 witness: the second language failed after the first was loaded with
\* an example and a response
C17_Witness ==
    /\ arg = ""
    /\ pc = "raised"
    /\ language_code = AgentLanguages[2]
    /\ LoadedLanguages = {AgentLanguages[1]}
    /\ ResultOf(AgentLanguages[1]).example_utterances # <<>>
    /\ ResultOf(AgentLanguages[1]).responses.groups # <<>>
    /\ ret = NoValue

\* ------------------------------------------------------------------------
\* The data of a successful load (checked under Spec)
\* ------------------------------------------------------------------------
MultiKeyItems(doc) ==
    {p \in GroupIndexes(doc) \X (1..MaxEntries + 1) :
        /\ p[2] \in ItemIndexes(doc, p[1])
        /\ Len(doc.responses[p[1]].items[p[2]]) > 1}

\* C18: the data returned for a non-empty document holds the document's
\* examples in order, its slot_filling_prompts as they are, whatever
\* parameter their keys name, and per response group one response per item,
\* in order, of the class of the item's single key; a document with an item
\* of more than one key fails to load.
C18_FaithfulLoad ==
    LET doc == language_data
    IN /\ (pc = "returned" /\ doc.kind = "map" /\ ~IsEmptyDoc(doc)) =>
            /\ HasData(language_code)
            /\ LET d == DataOf(language_code)
               IN /\ d.example_utterances = doc.examples
                  /\ d.slot_filling_prompts = doc.prompts
                  /\ d.responses.t = "dict"
                  /\ Len(d.responses.groups) = Len(doc.responses)
                  /\ \A g \in GroupIndexes(doc) :
                        LET built == d.responses.groups[g]
                            given == doc.responses[g]
                        IN /\ built.key = given.key
                           /\ Len(built.items) = Len(given.items)
                           /\ \A i \in 1..Len(given.items) :
                                /\ Len(given.items[i]) = 1
                                /\ given.items[i][1].key \in ResponseTypes
                                /\ built.items[i].cls =
                                        ResponseClassOf(given.items[i][1].key)
       /\ (Final /\ doc.kind = "map" /\ MultiKeyItems(doc) # {}) => pc = "raised"

\* C18 witness: a load returned the prompts of a parameter that the intent
\* lacks, with a response of the `rich` group
C18_Witness ==
    /\ pc = "returned"
    /\ arg # ""
    /\ language_data.prompts # <<>>
    /\ language_data.prompts[1].key \notin SchemaNames(intent_cls)
    /\ DataOf(language_code).slot_filling_prompts = <<Prompt>>
    /\ Len(language_data.responses) = 1
    /\ language_data.responses[1].key = "rich"
    /\ Len(DataOf(language_code).responses.groups[1].items) = 1

====
